---------------------------- MODULE Spec2Model ----------------------------
(***************************************************************************)
(* Tag the Blob: the zustand game store (store/gameStore.ts), the timers   *)
(* it schedules, and the components and socket handlers that call it.      *)
(*                                                                         *)
(* Two iterations of store/gameStore.ts are part of the repository:        *)
(*   rev = 1   src/src/store/gameStore.ts                                  *)
(*   rev = 2   src/unnamed/part_008 (auto-activating collectPowerUp,       *)
(*             power-up multipliers in updatePlayerPosition,               *)
(*             ensureMinimumPlayers, interval spawner)                     *)
(* rev is fixed in the initial state; operations that differ branch on it. *)
(*                                                                         *)
(* Specifications                                                          *)
(*   Spec       the round life cycle of gameStore.ts: joining, startGame,  *)
(*              tags, endRound, the timers and the relay's round events    *)
(*   SpecPower  the power-ups of part_008: the pool, collection, the       *)
(*              deactivation timers and the relay's power-up events        *)
(*   SpecMove   movement in a round in progress, both iterations           *)
(*   SpecTag    tags, joins and leaves in a round of gameStore.ts among    *)
(*              three clients                                              *)
(*   SpecTagPower  tags and pickups in a round of part_008                 *)
(*   SpecStore  tagPlayer and removePlayer called with any ids             *)
(*   SpecTick   frames, collision checks, pickups and timers of part_008   *)
(*              side by side                                               *)
(*   SpecBot    the bot interval of part_008 with one bot between two      *)
(*              humans                                                     *)
(*                                                                         *)
(* Conventions                                                             *)
(*   times     milliseconds; the JavaScript null of a time field is 0      *)
(*             (every test the code makes on such a field is a truthiness  *)
(*             test, and Date.now() is never 0)                            *)
(*   scale     tenths (1.1 is 11, 2.0 is 20)                               *)
(*   position  hundredths of a world unit (the arena half-extent 20 is     *)
(*             2000)                                                       *)
(***************************************************************************)
EXTENDS Integers, FiniteSets, Sequences, TLC

VARIABLES
    rev,             \* which iteration of the store runs
    now,             \* Date.now()
    effLocal,        \* localPlayerId seen by Game's last effect run ("unmounted" before)
    isGameActive,
    roundStartTime,
    roundEndTime,
    roundNumber,
    players,         \* Record<string, Player>
    localPlayerId,
    powerUps,        \* Record<string, PowerUp>
    survivalTimes,   \* Record<string, number>
    gameSession,     \* TRUE when a GameSession is stored
    isDbConnected,
    timers,          \* pending setTimeout callbacks
    pendingStarts,   \* startGame calls suspended on createGameSession
    pendingAdds,     \* addPlayer('human') calls suspended on createOrGetPlayer
    advances,        \* steps the clock, or a movement run, has taken
    emittedMove      \* id of the 'player-move' the last updatePlayerPosition emitted

vars == <<rev, now, effLocal, isGameActive, roundStartTime, roundEndTime,
          roundNumber, players, localPlayerId, powerUps, survivalTimes,
          gameSession, isDbConnected, timers, pendingStarts, pendingAdds,
          advances, emittedMove>>

roundVars == <<isGameActive, roundStartTime, roundEndTime, roundNumber>>
dbVars    == <<gameSession, isDbConnected>>
asyncVars == <<pendingStarts, pendingAdds>>

-----------------------------------------------------------------------------
(* Program constants *)

roundDuration   == 180000
MinPlayers      == 5
GraceDelay      == 1000
RestartDelay    == 10000
PowerUpDuration == 5000
UiTickMs        == 1000
PoolTarget      == 3
ArenaHalf       == 2000
FlightY         == 200
GroundY         == 100
ItStartScale    == 12
FreshItScale    == 11
MaxScale        == 20
TagRadius       == 200
PickupRadius    == 250
PickupRadius2   == 550
PowerUpY        == 50
HoverY          == 300
SpawnMaxDelay   == 20000
BotSpeed        == 10
DetectionRadius == 500
EdgeBuffer      == 500
FleeReach       == 500
PickupMinDist   == 200

(* Bounds of the exploration *)

T0          == 1000     \* Date.now() when the page loads
MaxAdvances == 2        \* steps of the clock
MaxRound    == 2        \* highest round number started
MaxPending  == 2        \* concurrent suspended addPlayer calls
MaxStarts   == 1        \* concurrent suspended startGame calls
MaxTimers   == 2        \* pending setTimeout callbacks
MaxFrames   == 3        \* frames and interval callbacks of a movement run

NULL == "null"
UNDEF == "undefined"

LocalId   == "h0"                       \* the local socket's id
RemoteIds == {"r1"}                     \* other clients' socket ids
BotIds    == <<"b1", "b2", "b3", "b4", "b5">>
PowerUpIds == <<"u1", "u2", "u3", "u4">>
PowerUpTypes == {"speed", "invisibility", "flight"}
SpawnDraws == PowerUpTypes \ {"invisibility"}   \* types the spawner's random draws give
SpawnCoords == {0}                      \* coordinates a random spawn of a human or a pickup draws
BotSpawnCoords == {1000}                \* coordinates a random spawn of a bot draws
MoveStarts == {0, 1995}                 \* coordinates the local player has walked to
MoveVelocities == {-10, 0, 10}          \* components of a frame's velocity at baseSpeed
RemotePositions == {-2000, 0, 2000}     \* coordinates another client reports

-----------------------------------------------------------------------------
(* Helpers on Record<string, T> *)

Put(f, k, v) == [i \in (DOMAIN f) \cup {k} |-> IF i = k THEN v ELSE f[i]]
Del(f, k)    == [i \in (DOMAIN f) \ {k} |-> f[i]]
Empty        == [i \in {} |-> 0]
Min(a, b)    == IF a < b THEN a ELSE b
Max(a, b)    == IF a > b THEN a ELSE b

\* the first k entries of s that are not in used (uuidv4 never repeats an id)
RECURSIVE Fresh(_, _, _)
Fresh(s, used, k) ==
    IF k = 0 \/ s = <<>> THEN {}
    ELSE IF Head(s) \in used THEN Fresh(Tail(s), used, k)
         ELSE {Head(s)} \cup Fresh(Tail(s), used, k - 1)

-----------------------------------------------------------------------------
(* Records *)

\* the Player literal of addPlayer, createBot and the player-joined handler
NewPlayer(type, x, z) ==
    [isIt |-> FALSE, type |-> type, isAlive |-> TRUE, taggedTime |-> 0,
     powerUp |-> NULL, powerUpEndTime |-> 0, scale |-> 10,
     x |-> x, y |-> GroundY, z |-> z]

\* the PowerUp literal of addPowerUp, at the spawner's fixed height
NewPowerUp(type, x, z) == [type |-> type, x |-> x, y |-> PowerUpY, z |-> z]

Timer(kind, at, pid) == [kind |-> kind, at |-> at, pid |-> pid]

Ids == DOMAIN players

Untagged(ps) == {i \in DOMAIN ps : ~ps[i].isIt /\ ps[i].isAlive}
ItPlayers(ps) == {i \in DOMAIN ps : ps[i].isIt}

\* player.powerUp && player.powerUpEndTime && player.powerUpEndTime > Date.now()
PowerUpActive(p) == p.powerUp # NULL /\ p.powerUpEndTime # 0 /\ p.powerUpEndTime > now

\* THREE.Vector3.distanceTo, squared
Dist2(x1, y1, z1, x2, y2, z2) ==
    (x1 - x2) * (x1 - x2) + (y1 - y2) * (y1 - y2) + (z1 - z2) * (z1 - z2)

-----------------------------------------------------------------------------
(* Store operations.  An operation that schedules a timer takes the timer   *)
(* set it adds to, so that a timer callback can remove itself first.        *)

\* setTimeout(callback, delay)
Schedule(ts, kind, delay, pid) == ts \cup {Timer(kind, now + delay, pid)}

\* addPlayer('bot') called once per id of ids: fresh bots at the given positions
WithBots(ps, ids, pos) ==
    [i \in (DOMAIN ps) \cup ids |->
        IF i \in ids THEN NewPlayer("bot", pos[i][1], pos[i][2]) ELSE ps[i]]

\* startGame: 5 - playerCount bots when fewer than 5 players
BotsToAdd(playerCount) == IF playerCount < MinPlayers THEN MinPlayers - playerCount ELSE 0

\* startGame: the registry the new round is built from.  snapshot is the
\* `players` object read at entry; current is get().players after the
\* addPlayer loop.
StartBase(snapshot, current) == snapshot

\* startGame: the reset of every player of the base registry
ResetPlayers(base, itPlayerId) ==
    [id \in DOMAIN base |->
        [base[id] EXCEPT !.isIt = (id = itPlayerId),
                         !.isAlive = TRUE,
                         !.taggedTime = IF id = itPlayerId THEN now ELSE 0,
                         !.powerUp = NULL,
                         !.powerUpEndTime = 0,
                         !.scale = IF id = itPlayerId THEN ItStartScale ELSE 10]]

\* startPowerUpSpawner of part_008: the initial spawns that fill the pool to 3
InitialSpawns(pool, types, pos) ==
    [u \in (DOMAIN pool) \cup (DOMAIN types) |->
        IF u \in DOMAIN types THEN NewPowerUp(types[u], pos[u][1], pos[u][2])
        ELSE pool[u]]

\* the initial spawns, had the spawner counted one more than the target
SpawnIdsOneMore(pool) ==
    Fresh(PowerUpIds, DOMAIN pool, PoolTarget + 1 - Cardinality(DOMAIN pool))

SpawnIds(pool) == Fresh(PowerUpIds, DOMAIN pool, PoolTarget - Cardinality(DOMAIN pool))

\* startGame from the point where createGameSession has returned (or was skipped)
StartGameFinish(snapshot, baseTimers) ==
    LET n       == Cardinality(DOMAIN snapshot)
        botIds  == Fresh(BotIds, DOMAIN players, BotsToAdd(n))
    IN  /\ roundNumber < MaxRound
        /\ \E pos \in [botIds -> BotSpawnCoords \X BotSpawnCoords] :
           LET current == WithBots(players, botIds, pos)
               base    == StartBase(snapshot, current)
           IN  \E itPlayerId \in IF DOMAIN base = {} THEN {UNDEF} ELSE DOMAIN base :
                 /\ players' = ResetPlayers(base, itPlayerId)
                 /\ isGameActive' = TRUE
                 /\ roundStartTime' = now
                 /\ roundEndTime' = 0
                 /\ roundNumber' = roundNumber + 1
                 /\ survivalTimes' = Empty
                 /\ IF rev = 1
                    THEN powerUps' = Empty
                    ELSE \E types \in [SpawnIds(Empty) -> SpawnDraws] :
                         \E ppos \in [SpawnIds(Empty) -> SpawnCoords \X SpawnCoords] :
                            powerUps' = InitialSpawns(Empty, types, ppos)
        /\ timers' = baseTimers

\* startGame up to the await
StartGame(baseTimers) ==
    IF ~gameSession /\ isDbConnected
    THEN /\ Cardinality(pendingStarts) < MaxStarts
         /\ pendingStarts' = pendingStarts \cup {players}
         /\ timers' = baseTimers
         /\ UNCHANGED <<roundVars, players, powerUps, survivalTimes>>
    ELSE /\ StartGameFinish(players, baseTimers)
         /\ UNCHANGED pendingStarts

\* endRound: the survival times it computes
EndSurvival(ps) ==
    [id \in {i \in DOMAIN ps : ~ps[i].isIt} |->
        (IF ps[id].taggedTime # 0 THEN ps[id].taggedTime ELSE now) - roundStartTime]

endRound(baseTimers) ==
    /\ isGameActive' = FALSE
    /\ roundEndTime' = now
    /\ survivalTimes' = EndSurvival(players)
    /\ timers' = Schedule(baseTimers, "startGame", RestartDelay, NULL)
    /\ Cardinality(timers') <= MaxTimers
    /\ UNCHANGED <<roundStartTime, roundNumber, players>>

\* tagPlayer: the tagger's new scale
TagCount(ps) == 1 + Cardinality({i \in DOMAIN ps : ps[i].isIt /\ ps[i].taggedTime # 0})
NewScale(ps) == Min(10 + TagCount(ps), MaxScale)

\* tagPlayer's guard, had it not tested taggedPlayer.isIt
TagGuardNoItTest(taggedId, taggerId) ==
    /\ taggedId \in Ids
    /\ taggerId \in Ids
    /\ players[taggerId].isIt
    /\ players[taggedId].isAlive

TagGuard(taggedId, taggerId) ==
    /\ taggedId \in Ids
    /\ taggerId \in Ids
    /\ ~players[taggedId].isIt
    /\ players[taggerId].isIt
    /\ players[taggedId].isAlive

\* tagPlayer, had it cleared the tagged player's power-up kind only
TaggedKeepsExpiry(ps, taggedId, taggerId) ==
    [ps EXCEPT ![taggedId] = [@ EXCEPT !.isIt = TRUE, !.taggedTime = now,
                                       !.powerUp = NULL,
                                       !.scale = FreshItScale],
               ![taggerId] = [@ EXCEPT !.scale = NewScale(ps)]]

\* tagPlayer, had it left the tagged player's power-up in place
TaggedKeepsPowerUp(ps, taggedId, taggerId) ==
    [ps EXCEPT ![taggedId] = [@ EXCEPT !.isIt = TRUE, !.taggedTime = now,
                                       !.scale = FreshItScale],
               ![taggerId] = [@ EXCEPT !.scale = NewScale(ps)]]

Tagged(ps, taggedId, taggerId) ==
    [ps EXCEPT ![taggedId] = [@ EXCEPT !.isIt = TRUE, !.taggedTime = now,
                                       !.powerUp = NULL, !.powerUpEndTime = 0,
                                       !.scale = FreshItScale],
               ![taggerId] = [@ EXCEPT !.scale = NewScale(ps)]]

\* tagPlayer, had it scheduled endRound without the grace delay
tagPlayerNoGrace(taggedId, taggerId, baseTimers) ==
    IF ~TagGuard(taggedId, taggerId)
    THEN /\ timers' = baseTimers
         /\ UNCHANGED <<players, survivalTimes>>
    ELSE LET newPlayers == Tagged(players, taggedId, taggerId)
         IN  /\ players' = newPlayers
             /\ survivalTimes' = Put(survivalTimes, taggedId, now - roundStartTime)
             /\ timers' = IF Untagged(newPlayers) = {}
                          THEN Schedule(baseTimers, "endRound", 0, NULL)
                          ELSE baseTimers
             /\ Cardinality(timers') <= MaxTimers

tagPlayer(taggedId, taggerId, baseTimers) ==
    IF ~TagGuard(taggedId, taggerId)
    THEN /\ timers' = baseTimers
         /\ UNCHANGED <<players, survivalTimes>>
    ELSE LET newPlayers == Tagged(players, taggedId, taggerId)
         IN  /\ players' = newPlayers
             /\ survivalTimes' = Put(survivalTimes, taggedId, now - roundStartTime)
             /\ timers' = IF Untagged(newPlayers) = {}
                          THEN Schedule(baseTimers, "endRound", GraceDelay, NULL)
                          ELSE baseTimers
             /\ Cardinality(timers') <= MaxTimers

CollectGuard(playerId, powerUpId) ==
    /\ playerId \in Ids
    /\ powerUpId \in DOMAIN powerUps
    /\ ~players[playerId].isIt

\* collectPowerUp of src/src/store/gameStore.ts
collectPowerUp1(playerId, powerUpId) ==
    /\ IF ~CollectGuard(playerId, powerUpId)
       THEN UNCHANGED <<players, powerUps>>
       ELSE /\ players' = [players EXCEPT ![playerId].powerUp = powerUps[powerUpId].type]
            /\ powerUps' = Del(powerUps, powerUpId)
    /\ UNCHANGED timers

\* collectPowerUp of part_008: replacement spawn, activation, deactivation timer
collectPowerUp2(playerId, powerUpId) ==
    /\ IF ~CollectGuard(playerId, powerUpId)
       THEN UNCHANGED <<players, powerUps>>
       ELSE /\ players' =
                [players EXCEPT ![playerId] =
                    [@ EXCEPT !.powerUp = powerUps[powerUpId].type,
                              !.powerUpEndTime = now + PowerUpDuration,
                              !.y = IF powerUps[powerUpId].type = "flight"
                                    THEN FlightY ELSE @]]
            /\ \E newId \in Fresh(PowerUpIds, DOMAIN powerUps, 1) :
               \E newType \in SpawnDraws :
               \E x \in SpawnCoords, z \in SpawnCoords :
                  powerUps' = Del(Put(powerUps, newId, NewPowerUp(newType, x, z)), powerUpId)
    /\ timers' = Schedule(timers, "expireCollect", PowerUpDuration, playerId)
    /\ Cardinality(timers') <= MaxTimers

collectPowerUp(playerId, powerUpId) ==
    IF rev = 1 THEN collectPowerUp1(playerId, powerUpId)
               ELSE collectPowerUp2(playerId, powerUpId)

ActivateGuard(playerId) ==
    /\ playerId \in Ids
    /\ players[playerId].powerUp # NULL
    /\ players[playerId].powerUpEndTime = 0

activatePowerUp(playerId) ==
    /\ IF ~ActivateGuard(playerId)
       THEN UNCHANGED players
       ELSE players' = [players EXCEPT ![playerId].powerUpEndTime = now + PowerUpDuration]
    /\ timers' = Schedule(timers, "expire", PowerUpDuration, playerId)
    /\ Cardinality(timers') <= MaxTimers

\* the setTimeout callback of activatePowerUp
Deactivated(ps, playerId) ==
    IF playerId \notin DOMAIN ps THEN ps
    ELSE [ps EXCEPT ![playerId] = [@ EXCEPT !.powerUp = NULL, !.powerUpEndTime = 0]]

\* the setTimeout callback of part_008's collectPowerUp
DeactivatedCollect(ps, playerId) ==
    IF playerId \notin DOMAIN ps THEN ps
    ELSE [ps EXCEPT ![playerId] =
            [@ EXCEPT !.powerUp = NULL, !.powerUpEndTime = 0,
                      !.y = IF ps[playerId].powerUp = "flight" THEN GroundY ELSE @]]

\* removePlayer, had it left localPlayerId alone
removePlayerKeepsLocal(id) ==
    /\ players' = Del(players, id)
    /\ localPlayerId' = localPlayerId

removePlayer(id) ==
    /\ players' = Del(players, id)
    /\ localPlayerId' = IF id = localPlayerId THEN NULL ELSE localPlayerId

\* ensureMinimumPlayers of part_008
BotsNeeded(ps) ==
    LET existingBots == Cardinality({i \in DOMAIN ps : ps[i].type = "bot"})
        totalPlayers == Cardinality(DOMAIN ps)
    IN  IF existingBots < 2 /\ totalPlayers < 3
        THEN Min(2 - existingBots, 3 - totalPlayers) ELSE 0

-----------------------------------------------------------------------------
(* The clock.  A setTimeout callback runs when its deadline is reached, and *)
(* GameUI's one-second interval is evaluated when the round's time is up:   *)
(* the clock does not pass a deadline, and does not move while a callback   *)
(* that is due has not run.                                                 *)

Mounted == effLocal # "unmounted"

\* GameUI's timer effect is set up: isGameActive && roundStartTime
UiArmed == isGameActive /\ roundStartTime # 0

\* updateTimer, had it tested remaining < 0: remaining is clamped at 0, so
\* the timeout would never end a round
UpdateTimerEndsStrict ==
    LET elapsed   == now - roundStartTime
        remaining == Max(0, roundDuration - elapsed)
    IN  remaining < 0 /\ isGameActive

\* updateTimer: remaining <= 0 && isGameActive
UpdateTimerEnds ==
    LET elapsed   == now - roundStartTime
        remaining == Max(0, roundDuration - elapsed)
    IN  remaining <= 0 /\ isGameActive

Deadlines ==
    {t.at : t \in timers} \cup
    (IF UiArmed THEN {roundStartTime + roundDuration} ELSE {})

Due == (\E t \in timers : t.at <= now) \/ (UiArmed /\ UpdateTimerEnds)

Advance ==
    /\ Mounted
    /\ ~Due
    /\ advances < MaxAdvances
    /\ \E t \in {now + UiTickMs} \cup Deadlines :
          /\ t > now
          /\ \A d \in Deadlines : d > now => t <= d
          /\ now' = t
    /\ advances' = advances + 1
    /\ UNCHANGED <<rev, emittedMove, effLocal, roundVars, players,
                   localPlayerId, powerUps, survivalTimes, dbVars, timers,
                   asyncVars>>

-----------------------------------------------------------------------------
(* Components *)

\* Game: the "initialize game systems" effect.  Game.tsx runs it once, on
\* mount; part_005 runs it again whenever localPlayerId changes, and calls
\* ensureMinimumPlayers when there is a local player.  At mount no round is
\* active, so the spawner of gameStore.ts returns without spawning.
GameEffect ==
    /\ IF rev = 1
       THEN /\ effLocal = "unmounted"
            /\ effLocal' = "mounted"
            /\ UNCHANGED <<players, powerUps>>
       ELSE /\ effLocal # localPlayerId
            /\ effLocal' = localPlayerId
            /\ \E types \in [SpawnIds(powerUps) -> SpawnDraws] :
               \E ppos \in [SpawnIds(powerUps) -> SpawnCoords \X SpawnCoords] :
                  powerUps' = InitialSpawns(powerUps, types, ppos)
            /\ IF localPlayerId = NULL
               THEN UNCHANGED players
               ELSE LET botIds == Fresh(BotIds, Ids, BotsNeeded(players))
                    IN  \E pos \in [botIds -> BotSpawnCoords \X BotSpawnCoords] :
                           players' = WithBots(players, botIds, pos)
    /\ UNCHANGED <<rev, emittedMove, now, roundVars, localPlayerId,
                   survivalTimes, dbVars, timers, asyncVars, advances>>

\* GameUI: checkConnection() resolved true
CheckConnectionReturns ==
    /\ Mounted
    /\ ~isDbConnected
    /\ isDbConnected' = TRUE
    /\ UNCHANGED <<rev, emittedMove, now, effLocal, roundVars, players,
                   localPlayerId, powerUps, survivalTimes, gameSession,
                   timers, asyncVars, advances>>

\* addPlayer('human'): the set() at its end
AddHuman(x, z) ==
    /\ players' = Put(players, LocalId, NewPlayer("human", x, z))
    /\ localPlayerId' = IF localPlayerId = NULL THEN LocalId ELSE localPlayerId

\* GameUI handleUsernameSubmit (the dialog is open while there is no local
\* player): addPlayer('human', name), which awaits createOrGetPlayer when the
\* database is connected
SubmitUsername ==
    /\ Mounted
    /\ localPlayerId = NULL
    /\ IF isDbConnected
       THEN /\ pendingAdds < MaxPending
            /\ pendingAdds' = pendingAdds + 1
            /\ UNCHANGED <<players, localPlayerId>>
       ELSE /\ \E x \in SpawnCoords, z \in SpawnCoords : AddHuman(x, z)
            /\ UNCHANGED pendingAdds
    /\ UNCHANGED <<rev, emittedMove, now, effLocal, roundVars, powerUps,
                   survivalTimes, dbVars, timers, pendingStarts, advances>>

\* createOrGetPlayer settled: addPlayer resumes
AddPlayerResumes ==
    /\ pendingAdds > 0
    /\ pendingAdds' = pendingAdds - 1
    /\ \E x \in SpawnCoords, z \in SpawnCoords : AddHuman(x, z)
    /\ UNCHANGED <<rev, emittedMove, now, effLocal, roundVars, powerUps,
                   survivalTimes, dbVars, timers, pendingStarts, advances>>

\* GameUI handleJoinGame with a local player and no active round: startGame()
HandleJoinGame ==
    /\ Mounted
    /\ localPlayerId # NULL
    /\ ~isGameActive
    /\ StartGame(timers)
    /\ UNCHANGED <<rev, emittedMove, now, effLocal, localPlayerId, dbVars,
                   pendingAdds, advances>>

\* createGameSession settled (ok: with a session): startGame resumes
CreateSessionReturns(snapshot, ok) ==
    /\ snapshot \in pendingStarts
    /\ pendingStarts' = pendingStarts \ {snapshot}
    /\ gameSession' = (gameSession \/ ok)
    /\ StartGameFinish(snapshot, timers)
    /\ UNCHANGED <<rev, emittedMove, now, effLocal, localPlayerId,
                   isDbConnected, pendingAdds, advances>>

\* GameUI updateTimer: the round's time is up
UpdateTimer ==
    /\ Mounted
    /\ UiArmed
    /\ UpdateTimerEnds
    /\ endRound(timers)
    /\ UNCHANGED <<rev, emittedMove, now, effLocal, localPlayerId, powerUps,
                   dbVars, asyncVars, advances>>

\* Blob checkCollisions: the radius of a tag, and the check of one other player
CollisionRadius(s1, s2) == (TagRadius * (s1 + s2)) \div 20

\* checkCollisions, had it not skipped a player in flight
CollisionGuardNoFlightSkip(tagger, other) ==
    /\ tagger \in Ids /\ other \in Ids
    /\ players[tagger].isIt /\ players[tagger].isAlive
    /\ other # tagger
    /\ ~players[other].isIt
    /\ players[other].isAlive
    /\ ~(players[other].powerUp = "invisibility" /\ PowerUpActive(players[other])
          /\ tagger # localPlayerId)
    /\ LET a == players[tagger]
           b == players[other]
           r == CollisionRadius(a.scale, b.scale)
       IN  Dist2(a.x, a.y, a.z, b.x, b.y, b.z) < r * r

CollisionGuard(tagger, other) ==
    /\ tagger \in Ids /\ other \in Ids
    /\ players[tagger].isIt /\ players[tagger].isAlive
    /\ other # tagger
    /\ ~players[other].isIt
    /\ players[other].isAlive
    /\ ~(players[other].powerUp = "flight" /\ PowerUpActive(players[other]))
    /\ ~(players[other].powerUp = "invisibility" /\ PowerUpActive(players[other])
          /\ tagger # localPlayerId)
    /\ LET a == players[tagger]
           b == players[other]
           r == CollisionRadius(a.scale, b.scale)
       IN  Dist2(a.x, a.y, a.z, b.x, b.y, b.z) < r * r

CheckCollisions(tagger, other) ==
    /\ Mounted
    /\ CollisionGuard(tagger, other)
    /\ tagPlayer(other, tagger, timers)
    /\ UNCHANGED <<rev, emittedMove, now, effLocal, roundVars, localPlayerId,
                   powerUps, dbVars, asyncVars, advances>>

\* PowerUp checkCollision: PowerUp.tsx (radius 2.5) with gameStore.ts,
\* part_005 (radius 5.5) with part_008
PickupGuard(playerId, powerUpId) ==
    /\ playerId \in Ids /\ powerUpId \in DOMAIN powerUps
    /\ ~players[playerId].isIt
    /\ players[playerId].isAlive
    /\ LET p == players[playerId]
           u == powerUps[powerUpId]
           r == IF rev = 1 THEN PickupRadius ELSE PickupRadius2
       IN  Dist2(p.x, p.y, p.z, u.x, u.y, u.z) < r * r

PowerUpCheckCollision(playerId, powerUpId) ==
    /\ Mounted
    /\ PickupGuard(playerId, powerUpId)
    /\ collectPowerUp(playerId, powerUpId)
    /\ UNCHANGED <<rev, emittedMove, now, effLocal, roundVars, localPlayerId,
                   survivalTimes, dbVars, asyncVars, advances>>

\* the setInterval callback of part_008's startPowerUpSpawner: one spawn
\* while the pool is below the target
SpawnIntervalFires ==
    /\ Mounted
    /\ rev = 2
    /\ IF Cardinality(DOMAIN powerUps) < PoolTarget
       THEN \E newId \in Fresh(PowerUpIds, DOMAIN powerUps, 1) :
            \E newType \in SpawnDraws :
            \E x \in SpawnCoords, z \in SpawnCoords :
               powerUps' = Put(powerUps, newId, NewPowerUp(newType, x, z))
       ELSE UNCHANGED powerUps
    /\ UNCHANGED <<rev, emittedMove, now, effLocal, roundVars, players,
                   localPlayerId, survivalTimes, dbVars, timers, asyncVars,
                   advances>>

-----------------------------------------------------------------------------
(* setTimeout callbacks *)

\* tagPlayer's setTimeout(() => get().endRound(), 1000)
GraceTimerFires(t) ==
    /\ t \in timers /\ t.kind = "endRound" /\ t.at <= now
    /\ endRound(timers \ {t})
    /\ UNCHANGED <<rev, emittedMove, now, effLocal, localPlayerId, powerUps,
                   dbVars, asyncVars, advances>>

\* endRound's setTimeout(() => get().startGame(), 10000)
RestartTimerFires(t) ==
    /\ t \in timers /\ t.kind = "startGame" /\ t.at <= now
    /\ StartGame(timers \ {t})
    /\ UNCHANGED <<rev, emittedMove, now, effLocal, localPlayerId, dbVars,
                   pendingAdds, advances>>

\* activatePowerUp's deactivation callback
ExpiryTimerFires(t) ==
    /\ t \in timers /\ t.kind = "expire" /\ t.at <= now
    /\ timers' = timers \ {t}
    /\ players' = Deactivated(players, t.pid)
    /\ UNCHANGED <<rev, emittedMove, now, effLocal, roundVars, localPlayerId,
                   powerUps, survivalTimes, dbVars, asyncVars, advances>>

\* the deactivation callback of part_008's collectPowerUp
CollectExpiryTimerFires(t) ==
    /\ t \in timers /\ t.kind = "expireCollect" /\ t.at <= now
    /\ timers' = timers \ {t}
    /\ players' = DeactivatedCollect(players, t.pid)
    /\ UNCHANGED <<rev, emittedMove, now, effLocal, roundVars, localPlayerId,
                   powerUps, survivalTimes, dbVars, asyncVars, advances>>

\* the delay each setTimeout is given, and the time a pending one was scheduled
TimerDelay(kind) ==
    IF kind = "endRound" THEN GraceDelay
    ELSE IF kind = "startGame" THEN RestartDelay
    ELSE PowerUpDuration

ScheduledAt(t) == t.at - TimerDelay(t.kind)

\* a setTimeout callback runs
TimerFires(t) ==
    \/ GraceTimerFires(t)
    \/ RestartTimerFires(t)
    \/ ExpiryTimerFires(t)
    \/ CollectExpiryTimerFires(t)

-----------------------------------------------------------------------------
(* Socket handlers (services/socket.ts), fed by the relay (server)          *)

\* 'player-joined' of another client
OnPlayerJoined(id) ==
    /\ Mounted
    /\ id \notin Ids
    /\ \E x \in SpawnCoords, z \in SpawnCoords :
          players' = Put(players, id, NewPlayer("human", x, z))
    /\ UNCHANGED <<rev, emittedMove, now, effLocal, roundVars, localPlayerId,
                   powerUps, survivalTimes, dbVars, timers, asyncVars,
                   advances>>

\* 'player-left'
OnPlayerLeft(id) ==
    /\ Mounted
    /\ id \in Ids
    /\ removePlayer(id)
    /\ UNCHANGED <<rev, emittedMove, now, effLocal, roundVars, powerUps,
                   survivalTimes, dbVars, timers, asyncVars, advances>>

\* the `players` of a round-start another client emits, its own registry after
\* its startGame: itself, and the local player once it has joined
RemoteRegistry == RemoteIds \cup (Ids \cap {LocalId})

RemoteRound(ids, itPlayerId) ==
    ResetPlayers([i \in ids |-> NewPlayer("human", 0, 0)], itPlayerId)

syncRoundStart(startTime, number, ps) ==
    /\ isGameActive' = TRUE
    /\ roundStartTime' = startTime
    /\ roundNumber' = number
    /\ players' = ps
    /\ UNCHANGED roundEndTime

\* 'round-started'
OnRoundStarted(number, ids, itPlayerId) ==
    /\ Mounted
    /\ syncRoundStart(now, number, RemoteRound(ids, itPlayerId))
    /\ UNCHANGED <<rev, emittedMove, now, effLocal, localPlayerId, powerUps,
                   survivalTimes, dbVars, timers, asyncVars, advances>>

\* 'round-ended'
OnRoundEnded ==
    /\ Mounted
    /\ endRound(timers)
    /\ UNCHANGED <<rev, emittedMove, now, effLocal, localPlayerId, powerUps,
                   dbVars, asyncVars, advances>>

\* 'player-activated-power-up' of another client
OnPowerUpActivated(id) ==
    /\ Mounted
    /\ id \in Ids
    /\ activatePowerUp(id)
    /\ UNCHANGED <<rev, emittedMove, now, effLocal, roundVars, localPlayerId,
                   powerUps, survivalTimes, dbVars, asyncVars, advances>>

\* 'power-up-was-collected': the relay sends {id, playerId}, the handler reads
\* data.powerUpId, which is undefined
OnPowerUpCollected(id) ==
    /\ Mounted
    /\ collectPowerUp(id, UNDEF)
    /\ UNCHANGED <<rev, emittedMove, now, effLocal, roundVars, localPlayerId,
                   survivalTimes, dbVars, asyncVars, advances>>

-----------------------------------------------------------------------------

InitStore ==
    /\ now = T0
    /\ effLocal = "unmounted"
    /\ isGameActive = FALSE
    /\ roundStartTime = 0
    /\ roundEndTime = 0
    /\ roundNumber = 0
    /\ players = Empty
    /\ localPlayerId = NULL
    /\ powerUps = Empty
    /\ survivalTimes = Empty
    /\ gameSession = FALSE
    /\ isDbConnected = FALSE
    /\ timers = {}
    /\ pendingStarts = {}
    /\ pendingAdds = 0
    /\ advances = 0
    /\ emittedMove = NULL

Init == rev = 1 /\ InitStore

Next ==
    \/ GameEffect
    \/ CheckConnectionReturns
    \/ SubmitUsername
    \/ AddPlayerResumes
    \/ HandleJoinGame
    \/ \E s \in pendingStarts, ok \in BOOLEAN : CreateSessionReturns(s, ok)
    \/ UpdateTimer
    \/ \E a \in Ids, b \in Ids : CheckCollisions(a, b)
    \/ \E t \in timers : GraceTimerFires(t)
    \/ \E t \in timers : RestartTimerFires(t)
    \/ \E id \in RemoteIds : OnPlayerJoined(id)
    \/ \E id \in RemoteIds : OnPlayerLeft(id)
    \/ \E n \in 1..MaxRound, it \in RemoteRegistry : OnRoundStarted(n, RemoteRegistry, it)
    \/ OnRoundEnded
    \/ Advance

Spec == Init /\ [][Next]_vars

InitPower == rev = 2 /\ InitStore

NextPower ==
    \/ GameEffect
    \/ SubmitUsername
    \/ \E p \in Ids, u \in DOMAIN powerUps : PowerUpCheckCollision(p, u)
    \/ \E t \in timers : ExpiryTimerFires(t)
    \/ \E t \in timers : CollectExpiryTimerFires(t)
    \/ \E id \in RemoteIds : OnPlayerJoined(id)
    \/ \E id \in RemoteIds : OnPowerUpActivated(id)
    \/ \E id \in RemoteIds : OnPowerUpCollected(id)
    \/ Advance

SpecPower == InitPower /\ [][NextPower]_vars

-----------------------------------------------------------------------------
(* Movement: Blob's useFrame for the local player, the bot interval and the *)
(* player-moved handler, each followed by the store's update.  A step is    *)
(* one frame or interval callback; advances counts them.                    *)

Clamp(v, lo, hi) == Max(lo, Min(hi, v))

\* updatePlayerPosition(id, position): the position the store keeps
StoredPosition(p, x, y, z) ==
    IF rev = 1 THEN [x |-> x, y |-> y, z |-> z]
    ELSE IF PowerUpActive(p)
         THEN IF p.powerUp = "speed"
              THEN [x |-> p.x + 3 * (x - p.x), y |-> p.y + 3 * (y - p.y),
                    z |-> p.z + 3 * (z - p.z)]
              ELSE IF p.powerUp = "flight"
                   THEN [x |-> p.x + 2 * (x - p.x), y |-> FlightY,
                         z |-> p.z + 2 * (z - p.z)]
                   ELSE [x |-> x, y |-> y, z |-> z]
         ELSE [x |-> x, y |-> IF p.powerUp = "flight" THEN GroundY ELSE y, z |-> z]

\* updatePlayerPosition, had it emitted the move of every registered player
EmitsPlayerMoveAnyId(id) == id \in Ids

\* updatePlayerPosition: the test before emitPlayerMove
EmitsPlayerMove(id) == id \in Ids /\ id = localPlayerId

updatePlayerPosition(id, x, y, z) ==
    /\ players' = IF id \notin Ids THEN players
                  ELSE LET s == StoredPosition(players[id], x, y, z)
                       IN  [players EXCEPT ![id] = [@ EXCEPT !.x = s.x, !.y = s.y, !.z = s.z]]
    /\ emittedMove' = IF EmitsPlayerMove(id) THEN id ELSE NULL

\* Blob useFrame: the velocity component the held keys give a player, v being
\* the component at baseSpeed; 10% more for an it player, half as much again
\* with an active speed power-up (the velocity the lerp settles at)
FrameVelocity(p, v) ==
    LET asIt == IF p.isIt THEN (v * 11) \div 10 ELSE v
    IN  IF p.powerUp = "speed" /\ PowerUpActive(p) THEN (asIt * 3) \div 2 ELSE asIt

\* Blob useFrame, a direction key held: the position it hands to the store
\* after one frame with the keys asking for (vx, vz)
FramePosition(p, vx, vz) ==
    [x |-> Clamp(p.x + FrameVelocity(p, vx), -ArenaHalf, ArenaHalf),
     y |-> IF p.powerUp = "flight" /\ PowerUpActive(p) THEN HoverY ELSE GroundY,
     z |-> Clamp(p.z + FrameVelocity(p, vz), -ArenaHalf, ArenaHalf)]

MoveVars == <<rev, now, effLocal, roundVars, localPlayerId, powerUps, survivalTimes,
              dbVars, timers, asyncVars>>

LocalFrame(vx, vz) ==
    /\ advances < MaxFrames
    /\ <<vx, vz>> # <<0, 0>>
    /\ localPlayerId \in Ids
    /\ LET f == FramePosition(players[localPlayerId], vx, vz)
       IN  updatePlayerPosition(localPlayerId, f.x, f.y, f.z)
    /\ advances' = advances + 1
    /\ UNCHANGED MoveVars

\* Object.values(players): the order in which the ids were inserted
RegistryOrder == <<LocalId, "r1", "r2">> \o BotIds

OrderIndex(id) == CHOOSE i \in 1..Len(RegistryOrder) : RegistryOrder[i] = id

Abs(v) == IF v < 0 THEN -v ELSE v
Sign(v) == IF v > 0 THEN 1 ELSE IF v < 0 THEN -1 ELSE 0

\* the integer part of a square root
RECURSIVE SqrtBetween(_, _, _)
SqrtBetween(n, lo, hi) ==
    IF lo = hi THEN lo
    ELSE LET mid == (lo + hi + 1) \div 2
         IN  IF mid * mid <= n THEN SqrtBetween(n, mid, hi)
             ELSE SqrtBetween(n, lo, mid - 1)

\* THREE.Vector3.length
Length(v) == SqrtBetween(v.x * v.x + v.y * v.y + v.z * v.z, 0, 4 * ArenaHalf)

\* THREE.Vector3.normalize().multiplyScalar(len), to the hundredth
Scaled(v, len) ==
    LET d == Length(v)
        c(a) == IF d = 0 THEN 0 ELSE Sign(a) * ((Abs(a) * len) \div d)
    IN  [x |-> c(v.x), y |-> c(v.y), z |-> c(v.z)]

Between(a, b) == [x |-> b.x - a.x, y |-> b.y - a.y, z |-> b.z - a.z]

\* updateBotMovement: isNearEdge, also used for the escape position
NearEdge(p) ==
    Abs(p.x) > ArenaHalf - EdgeBuffer \/ Abs(p.z) > ArenaHalf - EdgeBuffer

\* updateBotMovement, it branch: the players the forEach does not skip
ChaseCandidates(botId) ==
    {p \in Ids \ {botId} :
        /\ players[p].isAlive /\ ~players[p].isIt
        /\ ~(players[p].powerUp = "invisibility" /\ PowerUpActive(players[p]))}

\* the nearest of a set of players, the first in registry order among equals
NearestTo(botId, set) ==
    LET b    == players[botId]
        d(p) == Dist2(b.x, b.y, b.z, players[p].x, players[p].y, players[p].z)
    IN  CHOOSE p \in set :
           \A q \in set \ {p} :
              d(p) < d(q) \/ (d(p) = d(q) /\ OrderIndex(p) < OrderIndex(q))

\* updateBotMovement, untagged branch: Object.values(players).find(p => p.isIt)
FirstIt ==
    LET its == ItPlayers(players)
    IN  CHOOSE p \in its : \A q \in its : OrderIndex(p) <= OrderIndex(q)

\* updateBotMovement, untagged branch: the pickups it may head for
BotPickups(botId) ==
    LET b    == players[botId]
        d(u) == Dist2(b.x, b.y, b.z, powerUps[u].x, powerUps[u].y, powerUps[u].z)
        far  == {u \in DOMAIN powerUps : d(u) > PickupMinDist * PickupMinDist}
    IN  {u \in far : \A w \in far : d(u) <= d(w)}

\* updateBotMovement: the vectors from the bot to its target (random: no
\* target was found and a random one is drawn)
BotHeadings(botId) ==
    LET b      == players[botId]
        random == {[random |-> TRUE, x |-> 0, y |-> 0, z |-> 0]}
        to(v)  == {[random |-> FALSE, x |-> v.x, y |-> v.y, z |-> v.z]}
    IN  IF NearEdge(b) THEN to(Between(b, [x |-> 0, y |-> GroundY, z |-> 0]))
        ELSE IF b.isIt
        THEN IF ChaseCandidates(botId) = {} THEN random
             ELSE to(Between(b, players[NearestTo(botId, ChaseCandidates(botId))]))
        ELSE IF ItPlayers(players) = {} THEN random
        ELSE LET it == players[FirstIt]
             IN  IF Dist2(b.x, b.y, b.z, it.x, it.y, it.z)
                       < DetectionRadius * DetectionRadius
                 THEN LET away   == Scaled(Between(it, b), FleeReach)
                          escape == [x |-> b.x + away.x, z |-> b.z + away.z]
                      IN  IF NearEdge(escape)
                          THEN to([x |-> -away.z, y |-> away.y, z |-> away.x])
                          ELSE to(away)
                 ELSE IF BotPickups(botId) = {} THEN random
                      ELSE UNION {to(Between(b, powerUps[u])) : u \in BotPickups(botId)}

\* updateBotMovement of part_008 (the bots of gameStore.ts do not outlive
\* startGame): one step of BOT_SPEED toward the target, kept 1 inside the
\* wall; (dx, dz) is the step a random target gives
BotStep(id, dx, dz) ==
    /\ advances < MaxFrames
    /\ rev = 2
    /\ isGameActive
    /\ id \in Ids /\ players[id].type = "bot" /\ players[id].isAlive
    /\ \E h \in BotHeadings(id) :
          LET step == IF h.random THEN [x |-> dx, y |-> 0, z |-> dz]
                      ELSE Scaled(h, BotSpeed)
          IN  players' = [players EXCEPT ![id] =
                 [@ EXCEPT !.x = Clamp(@ + step.x, -ArenaHalf + 100, ArenaHalf - 100),
                           !.y = GroundY,
                           !.z = Clamp(@ + step.z, -ArenaHalf + 100, ArenaHalf - 100)]]
    /\ advances' = advances + 1
    /\ UNCHANGED <<MoveVars, emittedMove>>

\* 'player-moved': the position another client's Blob clamped and sent
OnPlayerMoved(id, x, z) ==
    /\ advances < MaxFrames
    /\ id \in Ids
    /\ updatePlayerPosition(id, x, GroundY, z)
    /\ advances' = advances + 1
    /\ UNCHANGED MoveVars

\* A round in progress, a minute after its start: the remote player is it,
\* the local player has walked to a position of MoveStarts and, with
\* part_008, the local player or the bot may just have collected a pickup
\* where it stands (collecting activates it).
MoveHolders == IF rev = 1 THEN {LocalId} ELSE {LocalId, "b1"}

Holding(p, held) ==
    [p EXCEPT !.powerUp = held,
              !.powerUpEndTime = IF held = NULL THEN 0 ELSE now + PowerUpDuration,
              !.y = IF held = "flight" THEN FlightY ELSE GroundY]

MoveRegistry(x, z, held, holder) ==
    LET h   == NewPlayer("human", x, z)
        r   == [NewPlayer("human", 0, 0) EXCEPT
                   !.isIt = TRUE, !.taggedTime = T0, !.scale = ItStartScale]
        bot == NewPlayer("bot", 1000, 1000)
        reg == IF rev = 1 THEN (LocalId :> h) @@ ("r1" :> r)
               ELSE (LocalId :> h) @@ ("r1" :> r) @@ ("b1" :> bot)
    IN  [reg EXCEPT ![holder] = Holding(@, held)]

InitMove ==
    /\ rev \in {1, 2}
    /\ now = T0 + 60 * UiTickMs
    /\ effLocal = IF rev = 1 THEN "mounted" ELSE LocalId
    /\ isGameActive = TRUE
    /\ roundStartTime = T0
    /\ roundEndTime = 0
    /\ roundNumber = 1
    /\ \E x \in MoveStarts, z \in MoveStarts :
       \E held \in IF rev = 1 THEN {NULL} ELSE {NULL} \cup SpawnDraws :
       \E holder \in MoveHolders :
          /\ players = MoveRegistry(x, z, held, holder)
          /\ timers = IF held = NULL THEN {}
                      ELSE {Timer("expireCollect", now + PowerUpDuration, holder)}
    /\ localPlayerId = LocalId
    /\ powerUps = IF rev = 1 THEN Empty
                  ELSE [u \in {"u1", "u2", "u3"} |-> NewPowerUp("speed", 0, 0)]
    /\ survivalTimes = Empty
    /\ gameSession = FALSE
    /\ isDbConnected = FALSE
    /\ pendingStarts = {}
    /\ pendingAdds = 0
    /\ advances = 0
    /\ emittedMove = NULL

NextMove ==
    \/ \E vx \in MoveVelocities, vz \in MoveVelocities : LocalFrame(vx, vz)
    \/ \E id \in Ids, dx \in MoveVelocities, dz \in MoveVelocities : BotStep(id, dx, dz)
    \/ \E id \in RemoteIds, x \in RemotePositions, z \in RemotePositions :
          OnPlayerMoved(id, x, z)

SpecMove == InitMove /\ [][NextMove]_vars

-----------------------------------------------------------------------------
(* Bots: part_008's round in progress with one bot between two humans       *)

BotStates == {"plain", "it"} \cup SpawnDraws   \* what the local player is or holds
BotHumanXs == {300, 450}                       \* where the local player stands
BotRemoteSpots == {<<-400, 0>>, <<0, -400>>}   \* where the other client stands
BotPools == {Empty, "u1" :> NewPowerUp("speed", 0, 1000)}

AsIt(p) == [p EXCEPT !.isIt = TRUE, !.taggedTime = T0, !.scale = ItStartScale]

BotRegistry(botIt, hState, hx, rIt, rSpot) ==
    LET h   == NewPlayer("human", hx, 0)
        r   == NewPlayer("human", rSpot[1], rSpot[2])
        bot == NewPlayer("bot", 0, 0)
    IN  (LocalId :> IF hState = "it" THEN AsIt(h)
                    ELSE IF hState = "plain" THEN h ELSE Holding(h, hState))
        @@ ("r1" :> IF rIt THEN AsIt(r) ELSE r)
        @@ ("b1" :> IF botIt THEN AsIt(bot) ELSE bot)

InitBot ==
    /\ rev = 2
    /\ now = T0 + 60 * UiTickMs
    /\ effLocal = LocalId
    /\ isGameActive = TRUE
    /\ roundStartTime = T0
    /\ roundEndTime = 0
    /\ roundNumber = 1
    /\ \E botIt \in BOOLEAN, hState \in BotStates, hx \in BotHumanXs,
          rIt \in BOOLEAN, rSpot \in BotRemoteSpots :
          /\ botIt \/ rIt \/ hState = "it"
          /\ players = BotRegistry(botIt, hState, hx, rIt, rSpot)
          /\ timers = IF hState \in SpawnDraws
                      THEN {Timer("expireCollect", now + PowerUpDuration, LocalId)}
                      ELSE {}
    /\ localPlayerId = LocalId
    /\ powerUps \in BotPools
    /\ survivalTimes = Empty
    /\ gameSession = FALSE
    /\ isDbConnected = FALSE
    /\ pendingStarts = {}
    /\ pendingAdds = 0
    /\ advances = 0
    /\ emittedMove = NULL

NextBot ==
    \/ \E id \in Ids, dx \in MoveVelocities, dz \in MoveVelocities : BotStep(id, dx, dz)
    \/ \E vx \in MoveVelocities, vz \in MoveVelocities : LocalFrame(vx, vz)

SpecBot == InitBot /\ [][NextBot]_vars

-----------------------------------------------------------------------------
(* Tagging: a round in progress among three clients, with part_008's pool   *)

TagIds == {LocalId, "r1", "r2"}         \* the registry of the round-started event

\* the relay's 'player-became-it' message for a received 'player-tagged'
\* {taggedId, taggerId}
PlayerBecameIt(taggedId, taggerId) == [id |-> taggedId, taggerId |-> taggerId]

\* data.name as JavaScript reads it
JsField(data, name) == IF name \in DOMAIN data THEN data[name] ELSE UNDEF

\* 'player-became-it': the relay sends {id, taggerId}, the handler reads
\* data.taggedId, which is undefined
OnPlayerBecameIt(taggerId) ==
    /\ Mounted
    /\ tagPlayer(UNDEF, taggerId, timers)
    /\ UNCHANGED <<rev, emittedMove, now, effLocal, roundVars, localPlayerId,
                   powerUps, dbVars, asyncVars, advances>>

\* The state a 'round-started' event carrying registry leaves on a mounted
\* client whose player has joined
RoundInProgress(registry) ==
    /\ now = T0
    /\ effLocal = IF rev = 1 THEN "mounted" ELSE LocalId
    /\ isGameActive = TRUE
    /\ roundStartTime = T0
    /\ roundEndTime = 0
    /\ roundNumber = 1
    /\ players = registry
    /\ localPlayerId = LocalId
    /\ survivalTimes = Empty
    /\ gameSession = FALSE
    /\ isDbConnected = FALSE
    /\ timers = {}
    /\ pendingStarts = {}
    /\ pendingAdds = 0
    /\ advances = 0
    /\ emittedMove = NULL

InitTag ==
    /\ rev = 1
    /\ \E itPlayerId \in TagIds : RoundInProgress(RemoteRound(TagIds, itPlayerId))
    /\ powerUps = Empty

NextTag ==
    \/ \E a \in Ids, b \in Ids : CheckCollisions(a, b)
    \/ \E id \in TagIds : OnPlayerBecameIt(id)
    \/ \E t \in timers : GraceTimerFires(t)
    \/ \E t \in timers : RestartTimerFires(t)
    \/ \E id \in TagIds \ {LocalId} : OnPlayerJoined(id)
    \/ \E id \in TagIds \ {LocalId} : OnPlayerLeft(id)
    \/ Advance

SpecTag == InitTag /\ [][NextTag]_vars

\* with part_008 a third client's player stands in a corner of the arena,
\* away from the others, and the spawner's pool holds three pickups, here
\* one of each type
InitTagPower ==
    /\ rev = 2
    /\ \E itPlayerId \in {LocalId} \cup RemoteIds :
          RoundInProgress(
              RemoteRound({LocalId} \cup RemoteIds, itPlayerId)
                @@ ("r2" :> NewPlayer("human", ArenaHalf, ArenaHalf)))
    /\ powerUps = ("u1" :> NewPowerUp("speed", 0, 0))
                @@ ("u2" :> NewPowerUp("flight", 0, 0))
                @@ ("u3" :> NewPowerUp("invisibility", 0, 0))

NextTagPower ==
    \/ \E a \in Ids, b \in Ids : CheckCollisions(a, b)
    \/ \E id \in Ids : OnPlayerBecameIt(id)
    \/ \E p \in Ids, u \in DOMAIN powerUps : PowerUpCheckCollision(p, u)
    \/ \E t \in timers : CollectExpiryTimerFires(t)
    \/ \E t \in timers : ExpiryTimerFires(t)
    \/ \E t \in timers : GraceTimerFires(t)
    \/ \E t \in timers : RestartTimerFires(t)
    \/ \E id \in RemoteIds : OnPowerUpActivated(id)
    \/ \E id \in RemoteIds : OnPowerUpCollected(id)
    \/ \E id \in TagIds \ {LocalId} : OnPlayerLeft(id)
    \/ SpawnIntervalFires
    \/ Advance

SpecTagPower == InitTagPower /\ [][NextTagPower]_vars

-----------------------------------------------------------------------------
(* The store's tagPlayer under any caller: a Blob interval callback running *)
(* on the closure of an earlier render, or a relay event, with any pair of  *)
(* ids, registered or not.                                                  *)

CallTagPlayer(taggedId, taggerId) ==
    /\ tagPlayer(taggedId, taggerId, timers)
    /\ UNCHANGED <<rev, emittedMove, now, effLocal, roundVars, localPlayerId,
                   powerUps, dbVars, asyncVars, advances>>

\* the store's removePlayer called with any id
CallRemovePlayer(id) ==
    /\ removePlayer(id)
    /\ UNCHANGED <<rev, emittedMove, now, effLocal, roundVars, powerUps,
                   survivalTimes, dbVars, timers, asyncVars, advances>>

NextStore ==
    \/ \E a \in TagIds \cup {UNDEF}, b \in TagIds \cup {UNDEF} : CallTagPlayer(a, b)
    \/ \E id \in TagIds \cup {UNDEF} : CallRemovePlayer(id)
    \/ \E t \in timers : GraceTimerFires(t)
    \/ \E id \in TagIds \ {LocalId} : OnPlayerJoined(id)
    \/ \E id \in TagIds \ {LocalId} : OnPlayerLeft(id)
    \/ Advance

SpecStore == InitTag /\ [][NextStore]_vars

-----------------------------------------------------------------------------
(* The callbacks of one stretch of play side by side: the local player's    *)
(* frames, the Blob and pickup collision checks, GameUI's timer and the     *)
(* timeouts.  Each runs as a task of its own; the round is in progress with *)
(* the remote player it next to the local player and a flight pickup.       *)

InitTick ==
    /\ rev = 2
    /\ RoundInProgress(RemoteRound({LocalId} \cup RemoteIds, "r1"))
    /\ powerUps = ("u1" :> NewPowerUp("flight", 0, 0))

NextTick ==
    \/ \E vx \in MoveVelocities, vz \in MoveVelocities : LocalFrame(vx, vz)
    \/ \E a \in Ids, b \in Ids : CheckCollisions(a, b)
    \/ \E p \in Ids, u \in DOMAIN powerUps : PowerUpCheckCollision(p, u)
    \/ UpdateTimer
    \/ \E t \in timers : CollectExpiryTimerFires(t)
    \/ \E t \in timers : GraceTimerFires(t)
    \/ \E t \in timers : RestartTimerFires(t)
    \/ Advance

SpecTick == InitTick /\ [][NextTick]_vars

-----------------------------------------------------------------------------
(* Steps that start a round *)

\* a startGame call ran to its final set()
StartGameCompletes ==
    /\ roundNumber' = roundNumber + 1
    /\ \/ HandleJoinGame
       \/ \E t \in timers : RestartTimerFires(t)
       \/ \E s \in pendingStarts, ok \in BOOLEAN : CreateSessionReturns(s, ok)

\* a round-started event was applied
RelayStart ==
    \E n \in 1..MaxRound, it \in RemoteRegistry : OnRoundStarted(n, RemoteRegistry, it)

\* endRound ran
RoundEnds == isGameActive /\ ~isGameActive'

-----------------------------------------------------------------------------
(* Claims *)

\* C1: a player holds at most one power-up: a collectPowerUp by a player who
\* already holds one changes neither its power-up kind nor its expiry, and
\* leaves the pickup in the pool.
C1_HolderCollectIsNoOp ==
    [][\A p \in Ids :
          (players[p].powerUp # NULL
             /\ \E u \in DOMAIN powerUps : PowerUpCheckCollision(p, u))
          => /\ players'[p].powerUp = players[p].powerUp
             /\ players'[p].powerUpEndTime = players[p].powerUpEndTime
             /\ powerUps' = powerUps]_vars

\* C2: tags are monotonic: a player that is it stays it in every step that is
\* not a round start (startGame completing, or round-started applied).
C2_TagMonotonic ==
    [][(\E p \in Ids \cap DOMAIN players' : players[p].isIt /\ ~players'[p].isIt)
          => (StartGameCompletes \/ RelayStart)]_vars

\* C3: a round goes from Active to Ended only when the elapsed time has reached
\* roundDuration or no untagged alive player remains.
C3_EndsOnlyOnTimeoutOrAllTagged ==
    [][RoundEnds => (now - roundStartTime >= roundDuration \/ Untagged(players) = {})]_vars

\* C4: when a step of an Active round (a tag, or the removal of the last
\* untagged player) leaves no untagged alive player, the end of the round is
\* due within the grace delay.
C4_GraceEndScheduled ==
    [][(/\ isGameActive /\ isGameActive'
        /\ Untagged(players) # {} /\ Untagged(players') = {}
        /\ ~(StartGameCompletes \/ RelayStart))
          => \E t \in timers' : t.kind = "endRound" /\ t.at <= now + GraceDelay]_vars

\* C5: an Active round whose elapsed time reaches roundDuration is ended before
\* a further timer tick has passed, whether or not untagged players remain.
C5_TimeoutEndsRound ==
    (isGameActive /\ roundStartTime # 0)
        => now - roundStartTime < roundDuration + UiTickMs

\* C5 happens: a round ended by the timeout while a player was still untagged
C5_TimedOutWithUntagged ==
    /\ ~isGameActive
    /\ roundStartTime # 0
    /\ roundEndTime = roundStartTime + roundDuration
    /\ Untagged(players) # {}

\* C6: after any sequence of movement applications every stored x and z lies
\* in [-20, 20].
C6_InsideArena ==
    \A p \in Ids : /\ players[p].x >= -ArenaHalf /\ players[p].x <= ArenaHalf
                   /\ players[p].z >= -ArenaHalf /\ players[p].z <= ArenaHalf

\* C7: an active power-up window lasts to its end: before powerUpEndTime no
\* step other than the holder's own collection changes the holder's power-up
\* kind or expiry.
C7_WindowLastsFiveSeconds ==
    [][\A p \in Ids \cap DOMAIN players' :
          (/\ players[p].powerUpEndTime # 0
           /\ now < players[p].powerUpEndTime
           /\ ~(\E u \in DOMAIN powerUps : PowerUpCheckCollision(p, u)))
          => /\ players'[p].powerUp = players[p].powerUp
             /\ players'[p].powerUpEndTime = players[p].powerUpEndTime]_vars

\* C8: a startGame that completes leaves at least 5 players registered (with
\* fewer than 5 registered it adds the missing bots).
C8_RegistryFilledToFive ==
    [][StartGameCompletes => Cardinality(DOMAIN players') >= MinPlayers]_vars

\* C9: immediately after a startGame exactly one participant is it.
C9_ExactlyOneIt ==
    [][StartGameCompletes => Cardinality(ItPlayers(players')) = 1]_vars

\* C10: the survival time recorded for a player tagged at t in a round started
\* at s is t - s once the round is Ended.
C10_SurvivalOfTagged ==
    [][RoundEnds =>
          \A p \in Ids \cap DOMAIN survivalTimes :
             (players[p].isIt /\ survivalTimes[p] = players[p].taggedTime - roundStartTime)
             => (p \in DOMAIN survivalTimes'
                   /\ survivalTimes'[p] = players[p].taggedTime - roundStartTime)]_vars

\* C11: a tagPlayer(candidate, tagger) with the tagger it and the candidate
\* untagged and alive makes the candidate it, sets its taggedTime to the
\* current time, clears its power-up kind and expiry, sets its scale to 1.1
\* and changes no player other than the candidate and the tagger.
C11_TagEffect ==
    [][\A a \in Ids, b \in Ids :
          CheckCollisions(a, b)
          => /\ DOMAIN players' = DOMAIN players
             /\ players'[b].isIt
             /\ players'[b].taggedTime = now
             /\ players'[b].powerUp = NULL
             /\ players'[b].powerUpEndTime = 0
             /\ players'[b].scale = FreshItScale
             /\ \A o \in Ids \ {a, b} : players'[o] = players[o]]_vars

\* C11 happens: the local player was tagged inside the window of the pickup
\* it had collected, with a third player registered
C11_TaggedWhileHolding ==
    /\ LocalId \in Ids
    /\ players[LocalId].isIt
    /\ players[LocalId].taggedTime = now
    /\ players[LocalId].scale = FreshItScale
    /\ players[LocalId].powerUp = NULL
    /\ \E t \in timers : t.kind = "expireCollect" /\ t.pid = LocalId /\ t.at > now
    /\ Cardinality(Ids) >= 3

\* C12: within a round a tagger's scale never shrinks and never exceeds 2.0:
\* after every successful tag the tagger's scale is at least its scale before
\* the tag and at most 2.0, whatever tags, joins and leaves came before.
C12_ScaleMonotonicCapped ==
    [][\A a \in Ids, b \in Ids :
          CheckCollisions(a, b)
          => /\ players'[a].scale >= players[a].scale
             /\ players'[a].scale <= MaxScale]_vars

C14_FlightImmune ==
    [][\A p \in Ids \cap DOMAIN players' :
          (/\ players[p].powerUp = "flight"
           /\ PowerUpActive(players[p])
           /\ ~players[p].isIt
           /\ players'[p].isIt)
          => StartGameCompletes]_vars

\* C14 happens: an untagged player in active flight inside the tag radius of
\* an it player
C14_FlightInsideTagRadius ==
    \E p \in Ids, a \in Ids :
       /\ isGameActive
       /\ players[a].isIt /\ players[a].isAlive
       /\ ~players[p].isIt /\ players[p].isAlive
       /\ players[p].powerUp = "flight" /\ PowerUpActive(players[p])
       /\ LET r == CollisionRadius(players[a].scale, players[p].scale)
          IN  Dist2(players[a].x, players[a].y, players[a].z,
                    players[p].x, players[p].y, players[p].z) < r * r

\* C15: a player whose invisibility power-up is active is never tagged by an
\* it player's collision evaluation, whether the tagger is the local player,
\* a remote player or a bot.
C15_InvisibleImmune ==
    [][\A a \in Ids, b \in Ids :
          CheckCollisions(a, b)
          => ~(players[b].powerUp = "invisibility" /\ PowerUpActive(players[b]))]_vars

\* C16: stale timers are ignored: a grace, restart or expiry timer scheduled
\* before the current round started changes, when it fires, neither the
\* round's state (Active/Ended, start, end, number) nor any player.
C16_StaleTimersIgnored ==
    [][\A t \in timers :
          (ScheduledAt(t) < roundStartTime /\ TimerFires(t))
          => UNCHANGED <<roundVars, players>>]_vars

\* C17: a collectPowerUp by a player who is it changes nothing: the pool and
\* every player stay as they are and no expiry is scheduled.
C17_ItCollectIsNoOp ==
    [][\A p \in Ids :
          (/\ players[p].isIt
           /\ \/ \E u \in DOMAIN powerUps : PowerUpCheckCollision(p, u)
              \/ OnPowerUpCollected(p))
          => UNCHANGED <<players, powerUps, timers>>]_vars

\* C18: in every reachable state no player that is it holds a power-up: its
\* power-up kind and expiry are both empty.
C18_ItHoldsNoPowerUp ==
    \A p \in Ids :
       players[p].isIt => (players[p].powerUp = NULL /\ players[p].powerUpEndTime = 0)

\* C18 happens: a player tagged inside the window of a pickup it collected
\* stands, it, on a pickup of the pool
C18_ItOnPickupAfterHolding ==
    \E p \in Ids, u \in DOMAIN powerUps :
       /\ players[p].isIt
       /\ p \in DOMAIN survivalTimes
       /\ \E t \in timers : t.kind = "expireCollect" /\ t.pid = p /\ t.at > now
       /\ Dist2(players[p].x, players[p].y, players[p].z,
                powerUps[u].x, powerUps[u].y, powerUps[u].z)
             < PickupRadius2 * PickupRadius2

\* C19: a successful collectPowerUp removes the pickup from the pool, grants
\* the collector its kind with no expiry set (armed, not active) and leaves
\* the pool at the size it had, one fresh pickup replacing the collected one.
C19_CollectArmsAndReplaces ==
    [][\A p \in Ids, u \in DOMAIN powerUps :
          PowerUpCheckCollision(p, u)
          => /\ u \notin DOMAIN powerUps'
             /\ players'[p].powerUp = powerUps[u].type
             /\ players'[p].powerUpEndTime = 0
             /\ Cardinality(DOMAIN powerUps') = Cardinality(DOMAIN powerUps)]_vars

C21_FlightPinsHeight ==
    \A id \in Ids :
        players[id].powerUp = "flight" /\ PowerUpActive(players[id])
            => players[id].y = FlightY

\* C22: while a speed power-up is active, the displacement one movement step
\* adds to the holder's stored position is exactly 1.5 times the displacement
\* the same keys give the same player without a power-up (away from the
\* walls, where neither displacement is clamped).
C22_SpeedScalesDisplacement ==
    [][\A vx \in MoveVelocities, vz \in MoveVelocities :
          LET p     == players[localPlayerId]
              plain == [p EXCEPT !.powerUp = NULL, !.powerUpEndTime = 0]
              f     == FramePosition(plain, vx, vz)
              q     == StoredPosition(plain, f.x, f.y, f.z)
          IN  (/\ LocalFrame(vx, vz)
               /\ p.powerUp = "speed" /\ PowerUpActive(p)
               /\ p.x > -1000 /\ p.x < 1000 /\ p.z > -1000 /\ p.z < 1000)
              => /\ 2 * (players'[localPlayerId].x - p.x) = 3 * (q.x - p.x)
                 /\ 2 * (players'[localPlayerId].z - p.z) = 3 * (q.z - p.z)]_vars

\* C23: an Ended round re-enters Active by itself after the fixed 10-second
\* intermission, performing the start transition: the restart callback that
\* makes an Ended round Active increments the round number and runs at least
\* 10 seconds after the round's end (the round ended no earlier than it
\* started, so never within 10 seconds of its start).
C23_RestartAfterIntermission ==
    [][\A t \in timers :
          (/\ ~isGameActive /\ roundEndTime # 0
           /\ RestartTimerFires(t)
           /\ isGameActive')
          => /\ now >= roundStartTime + RestartDelay
             /\ roundNumber' = roundNumber + 1
             /\ roundStartTime' = now]_vars

\* C24: roundNumber is monotonic: no step decreases it, and every start
\* transition (a step that leaves the round Active with a new start time, or
\* Active after not being so) increases it by exactly 1, whether the step is
\* startGame, endRound, a restart timer or a received round-started event.
C24_RoundNumberMonotonic ==
    [][/\ roundNumber' >= roundNumber
       /\ (isGameActive' /\ (~isGameActive \/ roundStartTime' # roundStartTime))
             => roundNumber' = roundNumber + 1]_vars

\* C25: the simulation never waits for the persistence collaborator: a call
\* of startGame leaves the round Active and a call of endRound leaves it
\* Ended in the step of the call itself, whether createGameSession and
\* recordPlayerRound succeed, fail or never return.
C25_NeverBlocksOnPersistence ==
    [][/\ (HandleJoinGame \/ \E t \in timers : RestartTimerFires(t))
            => isGameActive'
       /\ (UpdateTimer \/ OnRoundEnded \/ \E t \in timers : GraceTimerFires(t))
            => ~isGameActive']_vars

\* C26: a successful tag of taggedId by taggerId on the tagger's client, sent
\* through the relay, makes the same player it in the store of every other
\* client that holds both players: wherever the receiver holds the tagger
\* as it and the tagged player as not it, the tagPlayer call its handler
\* makes for the relay's message names that player and is accepted.
C26_RelayedTagApplies ==
    \A taggedId \in Ids, taggerId \in Ids \ {localPlayerId} :
        LET data == PlayerBecameIt(taggedId, taggerId)
        IN  (/\ taggedId # taggerId
             /\ players[taggerId].isIt
             /\ ~players[taggedId].isIt /\ players[taggedId].isAlive)
            => /\ JsField(data, "taggedId") = taggedId
               /\ TagGuard(JsField(data, "taggedId"), JsField(data, "taggerId"))

\* C27: only the local player's movement is broadcast: updatePlayerPosition
\* emits a 'player-move' exactly when the moved id is the local player's, so
\* a frame of the local player emits its move and applying a 'player-moved'
\* received from the relay (which never carries the receiver's own id) emits
\* nothing.
C27_OnlyLocalMoveEmitted ==
    [][/\ (\E vx \in MoveVelocities, vz \in MoveVelocities : LocalFrame(vx, vz))
            => emittedMove' = localPlayerId
       /\ (\E id \in RemoteIds, x \in RemotePositions, z \in RemotePositions :
               OnPlayerMoved(id, x, z))
            => emittedMove' = NULL]_vars

\* a received move has been applied after the local player emitted one
C27_RemoteMoveApplied ==
    /\ "r1" \in Ids /\ players["r1"].x = 2000
    /\ players[LocalId].x = 10
    /\ emittedMove = NULL

\* C28: removePlayer(id) deletes exactly the player with that id;
\* localPlayerId becomes null when id was the local player's id and is kept
\* otherwise; every other player record, the power-up pool and the round
\* state are left unchanged.
C28_RemoveDeletesExactlyOne ==
    [][\A id \in TagIds \cup {UNDEF} :
          CallRemovePlayer(id)
          => /\ DOMAIN players' = DOMAIN players \ {id}
             /\ \A o \in DOMAIN players' : players'[o] = players[o]
             /\ localPlayerId' = IF id = localPlayerId THEN NULL ELSE localPlayerId
             /\ UNCHANGED <<powerUps, roundVars, survivalTimes, timers>>]_vars

\* the local player has been removed, the others are still registered
C28_LocalPlayerRemoved ==
    /\ localPlayerId = NULL
    /\ LocalId \notin Ids
    /\ Ids # {}

\* C29: the evaluations of one tick run in the fixed order movement, tag
\* evaluation, power-up collection, round-end evaluation: once the local
\* player has moved to a position for which a tag is due, no pickup check
\* collects and GameUI's timer does not end the round before that tag has
\* been applied.
C29_TagEvaluatedFirst ==
    [][(/\ emittedMove = localPlayerId
        /\ \E tagger \in Ids : CollisionGuard(tagger, localPlayerId))
       => ~(\/ \E p \in Ids, u \in DOMAIN powerUps : PowerUpCheckCollision(p, u)
            \/ UpdateTimer)]_vars

\* C30: the tag that turns the last untagged player into it does not end the
\* round in the same step: right after that tagPlayer the round's state is
\* what it was (an Active round is still Active) and endRound is a timeout
\* that comes due one second later, not earlier.
C30_LastTagDefersEnd ==
    [][\A tagger \in Ids, other \in Ids :
          (/\ CheckCollisions(tagger, other)
           /\ Untagged(players) # {}
           /\ Untagged(players') = {})
          => /\ UNCHANGED roundVars
             /\ Timer("endRound", now + GraceDelay, NULL) \in timers'
             /\ \A t \in timers' \ timers : t.at >= now + GraceDelay]_vars

\* everyone has just been tagged in an Active round and its end is pending
C30_AllTaggedStillActive ==
    /\ isGameActive
    /\ Cardinality(Ids) = 3
    /\ Untagged(players) = {}
    /\ \E p \in Ids : players[p].taggedTime = now /\ players[p].scale = FreshItScale
    /\ Timer("endRound", now + GraceDelay, NULL) \in timers

\* C31: once a round is Ended its record is frozen: between the end and the
\* next start transition no step changes survivalTimes, roundEndTime or the
\* role of a registered player, whatever tagPlayer, endRound or relay event
\* arrives during the intermission.
C31_EndedRecordFrozen ==
    [][(~isGameActive /\ roundEndTime # 0 /\ ~isGameActive')
       => /\ UNCHANGED <<survivalTimes, roundEndTime>>
          /\ \A p \in Ids \cap DOMAIN players' :
                players'[p].isIt = players[p].isIt]_vars

\* C32: the pool never holds more than the target of 3 pickups, whatever the
\* interleaving of spawner starts, interval callbacks, collectPowerUp
\* replacements and startGame's pool clear.
C32_PoolWithinTarget == Cardinality(DOMAIN powerUps) <= PoolTarget

\* the pool is full in a restarted round after a pickup was replaced
C32_FullPoolAfterRestartAndCollect ==
    /\ roundNumber = 2
    /\ Cardinality(DOMAIN powerUps) = PoolTarget
    /\ \E p \in Ids : players[p].powerUp # NULL

\* C33: spawning keeps going for the whole game: in every Active round with
\* the pool below its target a new pickup is eventually spawned.  The
\* spawner's longest delay is 20 seconds, so an Active round that has lasted
\* that long has a pickup in its pool.
C33_SpawnerKeepsGoing ==
    (isGameActive /\ roundStartTime # 0 /\ now - roundStartTime >= SpawnMaxDelay)
        => powerUps # Empty

\* C34: a bot that is it and not near the arena edge steps toward the nearest
\* player that is untagged, alive and has no active invisibility or flight
\* effect, whenever such a player exists.
C34_ItBotPursuesEligible ==
    [][(/\ players'["b1"] # players["b1"]
        /\ players["b1"].isIt
        /\ Abs(players["b1"].x) <= ArenaHalf - EdgeBuffer
        /\ Abs(players["b1"].z) <= ArenaHalf - EdgeBuffer
        /\ \E p \in Ids \ {"b1"} :
              /\ players[p].isAlive /\ ~players[p].isIt
              /\ ~(players[p].powerUp \in {"invisibility", "flight"}
                      /\ PowerUpActive(players[p])))
       => LET b    == players["b1"]
              ok   == {p \in Ids \ {"b1"} :
                         /\ players[p].isAlive /\ ~players[p].isIt
                         /\ ~(players[p].powerUp \in {"invisibility", "flight"}
                                 /\ PowerUpActive(players[p]))}
              d(p) == Dist2(b.x, b.y, b.z, players[p].x, players[p].y, players[p].z)
          IN  \E t \in ok :
                 /\ \A q \in ok : d(t) <= d(q)
                 /\ players'["b1"].x = b.x + Scaled(Between(b, players[t]), BotSpeed).x
                 /\ players'["b1"].z = b.z + Scaled(Between(b, players[t]), BotSpeed).z]_vars

\* C35: an untagged bot away from the arena edge that has an it player within
\* the detection radius steps away from the nearest it player (sideways when
\* the escape would end near the edge), also when that player is not the
\* first it player of the registry.
C35_BotFleesNearestIt ==
    [][(/\ players'["b1"] # players["b1"]
        /\ ~players["b1"].isIt
        /\ Abs(players["b1"].x) <= ArenaHalf - EdgeBuffer
        /\ Abs(players["b1"].z) <= ArenaHalf - EdgeBuffer
        /\ \E p \in Ids : /\ players[p].isIt
                          /\ Dist2(players["b1"].x, players["b1"].y, players["b1"].z,
                                   players[p].x, players[p].y, players[p].z)
                                < DetectionRadius * DetectionRadius)
       => LET b    == players["b1"]
              its  == {p \in Ids : players[p].isIt}
              d(p) == Dist2(b.x, b.y, b.z, players[p].x, players[p].y, players[p].z)
          IN  \E n \in its :
                 /\ \A q \in its : d(n) <= d(q)
                 /\ LET away == Scaled(Between(players[n], b), FleeReach)
                        dir  == IF \/ Abs(b.x + away.x) > ArenaHalf - EdgeBuffer
                                   \/ Abs(b.z + away.z) > ArenaHalf - EdgeBuffer
                                THEN [x |-> -away.z, y |-> away.y, z |-> away.x]
                                ELSE away
                    IN  /\ players'["b1"].x = b.x + Scaled(dir, BotSpeed).x
                        /\ players'["b1"].z = b.z + Scaled(dir, BotSpeed).z]_vars

\* C36: while the round is Ended and stays Ended, no step moves roundEndTime
\* or schedules a further restart timer: a repeated endRound or a received
\* 'round-ended' is a no-op.
C36_EndRoundIdempotent ==
    [][(~isGameActive /\ roundEndTime # 0 /\ ~isGameActive')
       => /\ roundEndTime' = roundEndTime
          /\ \A t \in timers' \ timers : t.kind # "startGame"]_vars

\* C37: an Active round is never restarted: no startGame (from the join
\* button, a restart timer or the return of the persistence call) performs
\* its start transition in a state where isGameActive is true.
C37_ActiveNeverRestarted ==
    [][isGameActive => ~StartGameCompletes]_vars

\* C38: a startGame that resumes from the persistence call keeps the registry
\* membership of that moment: every player registered when it resumes is
\* registered after the commit, and the only new members are the bots it adds.
C38_StartKeepsMembership ==
    [][(\E s \in pendingStarts, ok \in BOOLEAN : CreateSessionReturns(s, ok))
       => /\ DOMAIN players \subseteq DOMAIN players'
          /\ \A p \in DOMAIN players' \ DOMAIN players : players'[p].type = "bot"]_vars

\* C39: a rejected activatePowerUp (no power-up held, or one already active)
\* has no later effect: the expiry callbacks of activatePowerUp clear only a
\* power-up whose five seconds have passed, never one collected afterwards.
C39_ExpiryClearsOnlyEnded ==
    [][\A t \in timers :
          (/\ ExpiryTimerFires(t)
           /\ t.pid \in Ids
           /\ players[t.pid].powerUp # NULL)
          => players[t.pid].powerUpEndTime <= now]_vars

\* C40: while the round is Active and the registry is not empty, at least
\* one registered player is it.
C40_ActiveRoundHasIt ==
    (isGameActive /\ Ids # {}) => ItPlayers(players) # {}

=============================================================================
